---- MODULE Spec2Model ----
(***************************************************************************)
(* Model of CampaignService (src/src/services/campaignService.ts): the     *)
(* campaign data-access and audit-logging layer over a remote data store.  *)
(* Every store call answers with a {data, error} pair; the service turns   *)
(* a reported error into a thrown Error, except in logAuditAction.         *)
(***************************************************************************)
EXTENDS Integers, Sequences, FiniteSets, TLC

VARIABLES
  campaigns,     \* table campaigns: id -> row or NoRow
  created,       \* number of ids the store has assigned so far
  messages,      \* table campaign_messages: campaign id -> sequence of templates
  metrics,       \* table campaign_metrics: campaign id -> row or NoRow
  auditLog,      \* table campaign_audit_log, in insertion order
  pc,            \* per call slot: the await the call is suspended at
  call,          \* per call slot: operation, arguments and locals
  ret,           \* outcome of the call that finished last
  calls,         \* number of calls begun
  writes,        \* successful primary writes per <<campaign, label>>
  auditFailures, \* failed audit inserts per <<campaign, label>>
  rTemplate,     \* message_template given to the renderer
  rCustomer,     \* customer row given to the renderer
  rRestaurant,   \* restaurant row given to the renderer, or NoRow
  rOut,          \* rendered_message, or Pending
  consent,       \* table customer_consent: set of rows
  consentLog,    \* the successful updateCustomerConsent calls, in order
  tags,          \* table customer_tags: set of rows
  assignments    \* table customer_tag_assignments, in insertion order

campVars    == <<campaigns, created, messages, metrics, auditLog, writes,
                 auditFailures>>
callVars    == <<pc, call, ret, calls>>
renderVars  == <<rTemplate, rCustomer, rRestaurant, rOut>>
consentVars == <<consent, consentLog>>
tagVars     == <<tags, assignments>>
vars        == <<campVars, callVars, renderVars, consentVars, tagVars>>

Null      == "null"
Undefined == "undefined"
NoRow     == [absent |-> TRUE]
Pending   == <<"pending">>

(***************************************************************************)
(* Strings are sequences of one-character strings.                         *)
(***************************************************************************)
CustomerNameKey ==
  <<"c", "u", "s", "t", "o", "m", "e", "r", "_", "n", "a", "m", "e">>
RestaurantNameKey ==
  <<"r", "e", "s", "t", "a", "u", "r", "a", "n", "t", "_", "n", "a", "m", "e">>
PromoCodeKey ==
  <<"p", "r", "o", "m", "o", "_", "c", "o", "d", "e">>
PreviewCode ==
  <<"P", "R", "E", "V", "I", "E", "W", "-", "C", "O", "D", "E">>

Braced(key) == <<"{", "{">> \o key \o <<"}", "}">>

CustomerNameRe   == Braced(CustomerNameKey)
RestaurantNameRe == Braced(RestaurantNameKey)
PromoCodeRe      == Braced(PromoCodeKey)

MatchAt(str, pat, i) ==
  /\ i + Len(pat) - 1 <= Len(str)
  /\ \A k \in 1..Len(pat) : str[i + k - 1] = pat[k]

\* The grave accent (U+0060) and the apostrophe (U+0027) as characters.
Grave      == "grave"
Apostrophe == "apostrophe"

\* String.prototype.replace expands $$, $&, $ + grave accent and $ + apostrophe
\* in a replacement string; with a pattern that has no capture groups every
\* other $ stays literal.
RECURSIVE GetSubstitution(_, _, _, _, _)
GetSubstitution(matched, before, after, rep, j) ==
  IF j > Len(rep) THEN <<>>
  ELSE IF rep[j] = "$" /\ j < Len(rep) /\ rep[j + 1] \in {"$", "&", Grave, Apostrophe}
    THEN (CASE rep[j + 1] = "$" -> <<"$">>
            [] rep[j + 1] = "&" -> matched
            [] rep[j + 1] = Grave -> before
            [] rep[j + 1] = Apostrophe -> after)
         \o GetSubstitution(matched, before, after, rep, j + 2)
    ELSE <<rep[j]>> \o GetSubstitution(matched, before, after, rep, j + 1)

\* str.replace(/pat/g, rep): the matches are found left to right in str, never
\* in text already inserted by this replace.
RECURSIVE ReplaceFrom(_, _, _, _)
ReplaceFrom(str, pat, rep, i) ==
  IF i > Len(str) THEN <<>>
  ELSE IF MatchAt(str, pat, i)
    THEN GetSubstitution(pat, SubSeq(str, 1, i - 1),
                         SubSeq(str, i + Len(pat), Len(str)), rep, 1)
         \o ReplaceFrom(str, pat, rep, i + Len(pat))
    ELSE <<str[i]>> \o ReplaceFrom(str, pat, rep, i + 1)

ReplaceAll(str, pat, rep) == ReplaceFrom(str, pat, rep, 1)

FullName(customer) == customer.first_name \o <<" ">> \o customer.last_name

\* restaurant?.name || ''
RestaurantName(restaurant) ==
  IF restaurant = NoRow THEN <<>> ELSE restaurant.name

\* The body of messages.map in previewCampaign.
RenderMessage(template, customer, restaurant) ==
  LET r1 == ReplaceAll(template, CustomerNameRe, FullName(customer))
      r2 == ReplaceAll(r1, RestaurantNameRe, RestaurantName(restaurant))
  IN  ReplaceAll(r2, PromoCodeRe, PreviewCode)


(***************************************************************************)
(* The data store.  A request answers {data, error}: StoreOutcomes is what *)
(* the store may answer to any one request.                                *)
(***************************************************************************)
MaxCalls     == 2
MaxMessages  == 2

Slots       == {1, 2}
CampaignIds == {1, 2}
Users       == {"u1"}
ErrMsgs     == {"timeout"}
Ok          == "ok"
StoreOutcomes == {Ok} \cup ErrMsgs

\* PostgREST's answer to .single() when the filter matched no row.
NoRowsMsg           == "no rows"
CampaignNotFoundMsg == "Campaign or messages not found"
CustomerNotFoundMsg == "Customer not found"

NullData    == [kind |-> "null"]
RowData(r)  == [kind |-> "row", row |-> r]
ListData(l) == [kind |-> "list", list |-> l]
NumData(n)  == [kind |-> "number", n |-> n]

\* Objects are sets of <<key, value>> pairs.
HasKey(obj, k) == \E kv \in obj : kv[1] = k
Get(obj, k, default) ==
  IF HasKey(obj, k) THEN (CHOOSE kv \in obj : kv[1] = k)[2] ELSE default
\* {...a, ...b}: the keys of b win.
Spread(a, b) == {kv \in a : ~HasKey(b, kv[1])} \cup b
\* JSON.stringify of a request body drops the keys whose value is undefined.
JsonBody(obj) == {kv \in obj : kv[2] # Undefined}

\* userData?.user?.id and userData?.user?.id || null
UserId(user)      == IF user = Null THEN Undefined ELSE user
PerformedBy(user) == IF UserId(user) = Undefined THEN Null ELSE UserId(user)

\* Campaign (interface, lines 3-22), the columns the service writes.
CampaignRow(body) ==
  [status        |-> Get(body, "status", Null),
   restaurant_id |-> Get(body, "restaurant_id", Null),
   created_by    |-> Get(body, "created_by", Null),
   scheduled_at  |-> Get(body, "scheduled_at", Null)]

PatchRow(row, body) ==
  [f \in DOMAIN row |-> Get(body, f, row[f])]

\* As MatchesId, with resumeCampaign also filtering on status paused.
MatchesIdAndPaused(table, c) ==
  /\ table[c.id] # NoRow
  /\ c.op = "resumeCampaign" => table[c.id].status = "paused"

\* .update(patch).eq('id', campaignId): whether the filter selects a row.
MatchesId(table, c) == table[c.id] # NoRow

\* As CreateBody, with the spread after created_by: {created_by, ...campaign}.
CreateBodyCallerWins(campaign, user) ==
  JsonBody(Spread({<<"created_by", UserId(user)>>}, campaign))

\* createCampaign's insert body (lines 119-122).
CreateBody(campaign, user) ==
  JsonBody(Spread(campaign, {<<"created_by", UserId(user)>>}))

\* logAuditAction's insert (lines 477-484).
AuditEntry(campaignId, action, performedBy, changes) ==
  [campaign_id |-> campaignId, action |-> action,
   performed_by |-> performedBy, changes |-> changes]

\* As AuditInsert, with every entry logged under the label of updateCampaign.
AuditInsertAsEdited(log, campaignId, action, performedBy, changes) ==
  Append(log, AuditEntry(campaignId, "edited", performedBy, changes))

AuditInsert(log, campaignId, action, performedBy, changes) ==
  Append(log, AuditEntry(campaignId, action, performedBy, changes))

Labels == {"created", "edited", "scheduled", "cancelled", "paused", "resumed",
           "preview"}

\* The action label and the changes payload each audited operation logs.
AuditLabel(op) ==
  CASE op = "createCampaign"   -> "created"
    [] op = "updateCampaign"   -> "edited"
    [] op = "scheduleCampaign" -> "scheduled"
    [] op = "cancelCampaign"   -> "cancelled"
    [] op = "pauseCampaign"    -> "paused"
    [] op = "resumeCampaign"   -> "resumed"
    [] op = "previewCampaign"  -> "preview"

AuditChanges(c) ==
  CASE c.op = "updateCampaign"   -> c.arg
    [] c.op = "scheduleCampaign" -> {<<"scheduled_at", Get(c.arg, "scheduled_at", Null)>>}
    [] c.op = "previewCampaign"  -> {<<"customer_id", c.customer>>}
    [] OTHER                     -> {}

\* The patch each update-style operation sends (lines 138, 394-397, 414, 431, 448).
UpdatePatch(c) ==
  CASE c.op = "updateCampaign"   -> c.arg
    [] c.op = "scheduleCampaign" ->
         {<<"status", "scheduled">>, <<"scheduled_at", Get(c.arg, "scheduled_at", Null)>>}
    [] c.op = "cancelCampaign"   -> {<<"status", "cancelled">>}
    [] c.op = "pauseCampaign"    -> {<<"status", "paused">>}
    [] c.op = "resumeCampaign"   -> {<<"status", "scheduled">>}


(***************************************************************************)
(* Inputs of the campaign operations.                                      *)
(***************************************************************************)
CreateInputs ==
  {{<<"status", "draft">>, <<"restaurant_id", "r1">>},
   {<<"status", "draft">>, <<"restaurant_id", "r9">>, <<"created_by", "u9">>}}
UpdateInputs   == {{<<"status", "sent">>}, {<<"status", "sending">>}}
ScheduleInputs == {{<<"scheduled_at", "t1">>}}
CustomerIds    == {"k1", "k9"}
MsgTemplates   == {<<"H", "i", " ">> \o CustomerNameRe \o <<" ">> \o PromoCodeRe}
MessageIds     == 1..MaxMessages
\* Partial<CampaignMessage> patches given to updateCampaignMessage.
MessageUpdates == {{<<"message_template", <<"X">>>>}, {<<"campaign_id", 2>>}}

\* CampaignMessage (interface), the columns the service reads and writes.
MessageRow(id, body) ==
  [id               |-> id,
   campaign_id      |-> Get(body, "campaign_id", Null),
   message_template |-> Get(body, "message_template", <<>>)]

\* .select('*').eq('campaign_id', campaignId) on campaign_messages, a table
\* held as the sequence of its rows in insertion order.
MessagesOf(table, campaignId) ==
  LET OfCampaign(row) == row.campaign_id = campaignId
  IN  SelectSeq(table, OfCampaign)

Customers   == {[id |-> "k1", first_name |-> <<"A">>, last_name |-> <<"B">>]}
Restaurants == {[id |-> "r1", name |-> <<"R">>]}

\* .select('*').eq('id', id) on a table held as a set of rows.
Lookup(table, id) ==
  IF \E r \in table : r.id = id THEN CHOOSE r \in table : r.id = id ELSE NoRow

UpdateOps  == {"updateCampaign", "scheduleCampaign", "cancelCampaign",
               "pauseCampaign", "resumeCampaign"}
AuditedOps == {"createCampaign"} \cup UpdateOps

InputsOf(op) ==
  CASE op = "createCampaign"   -> CreateInputs
    [] op = "updateCampaign"   -> UpdateInputs
    [] op = "scheduleCampaign" -> ScheduleInputs
    [] OTHER                   -> {{}}

NoCall == [op |-> "none", id |-> 0, user |-> Null, arg |-> {}, customer |-> Null,
           reported |-> Null,
           data |-> NullData]
NoRet  == [op |-> "none", id |-> 0, threw |-> FALSE, msg |-> Null,
           data |-> NullData, storeError |-> Null, audit |-> "none"]

Zero == [k \in CampaignIds \X Labels |-> 0]
Bump(f, id, label) == [f EXCEPT ![<<id, label>>] = @ + 1]

InFlightCreates ==
  Cardinality({p \in Slots : pc[p] = "primary" /\ call[p].op = "createCampaign"})

\* Calls are told apart by the slot they run in; a new call takes the lowest
\* free slot.
FreeSlot(p) ==
  /\ pc[p] = "idle"
  /\ \A q \in Slots : q < p => pc[q] # "idle"
  /\ calls < MaxCalls

\* if (error) throw new Error(error.message): the thrown message is the store's.
ErrorMessage(error) == error

\* A call ends by throwing Error(msg); reported is the error the store gave
\* to the request the call had just awaited, if any.
ThrowAs(p, op, id, msg, reported) ==
  /\ pc' = [pc EXCEPT ![p] = "idle"]
  /\ ret' = [op |-> op, id |-> id, threw |-> TRUE, msg |-> msg,
             data |-> NullData, storeError |-> reported, audit |-> "none"]
  /\ call' = [call EXCEPT ![p] = NoCall]

Throw(p, msg, reported) == ThrowAs(p, call[p].op, call[p].id, msg, reported)

\* The outcome of a call of one store request:
\*   const { data, error } = await ...; if (error) throw new Error(error.message);
\*   return data;
Returned(op, id, outcome, data) ==
  IF outcome # Ok
  THEN [op |-> op, id |-> id, threw |-> TRUE, msg |-> ErrorMessage(outcome),
        data |-> NullData, storeError |-> outcome, audit |-> "none"]
  ELSE [op |-> op, id |-> id, threw |-> FALSE, msg |-> Null,
        data |-> data, storeError |-> Null, audit |-> "none"]

Finish(p, op, id, outcome, data) ==
  /\ FreeSlot(p)
  /\ calls' = calls + 1
  /\ ret' = Returned(op, id, outcome, data)
  /\ UNCHANGED <<pc, call>>

\* const { data: userData } = await supabase.auth.getUser(), the first await of
\* createCampaign, updateCampaign, scheduleCampaign, cancelCampaign,
\* pauseCampaign and resumeCampaign.
GetUser(p) ==
  /\ FreeSlot(p)
  /\ \E op \in AuditedOps, id \in CampaignIds, user \in Users \cup {Null} :
       \E arg \in InputsOf(op) :
         /\ op = "createCampaign" =>
              id = 1 /\ created + InFlightCreates < Cardinality(CampaignIds)
         /\ call' = [call EXCEPT ![p] =
              [op |-> op, id |-> IF op = "createCampaign" THEN 0 ELSE id,
               user |-> user, arg |-> arg, customer |-> Null, reported |-> Null,
               data |-> NullData]]
  /\ pc' = [pc EXCEPT ![p] = "primary"]
  /\ calls' = calls + 1
  /\ UNCHANGED <<campVars, ret, consentVars, tagVars, renderVars>>

\* createCampaign, lines 117-126: the insert and its error check.
CreateCampaign(p) ==
  /\ pc[p] = "primary"
  /\ call[p].op = "createCampaign"
  /\ \E o \in StoreOutcomes :
       IF o # Ok
       THEN /\ Throw(p, ErrorMessage(o), o)
            /\ UNCHANGED <<campaigns, created, writes>>
       ELSE LET id  == created + 1
                row == CampaignRow(CreateBody(call[p].arg, call[p].user))
            IN  /\ campaigns' = [campaigns EXCEPT ![id] = row]
                /\ created' = id
                /\ writes' = Bump(writes, id, "created")
                /\ call' = [call EXCEPT ![p].id = id, ![p].data = RowData(row)]
                /\ pc' = [pc EXCEPT ![p] = "audit"]
                /\ UNCHANGED ret
  /\ UNCHANGED <<messages, metrics, auditLog, calls, auditFailures,
                  consentVars, tagVars, renderVars>>

\* .update(patch).eq('id', campaignId).select().single() and its error check:
\* updateCampaign 136-143, scheduleCampaign 392-402, cancelCampaign 412-419,
\* pauseCampaign 429-436, resumeCampaign 446-453.
UpdateWhereId(p, op) ==
  /\ pc[p] = "primary"
  /\ call[p].op = op
  /\ \E o \in StoreOutcomes :
       IF o # Ok
       THEN /\ Throw(p, ErrorMessage(o), o)
            /\ UNCHANGED <<campaigns, writes>>
       ELSE IF ~MatchesId(campaigns, call[p])
       THEN /\ Throw(p, ErrorMessage(NoRowsMsg), NoRowsMsg)
            /\ UNCHANGED <<campaigns, writes>>
       ELSE LET row == PatchRow(campaigns[call[p].id], UpdatePatch(call[p]))
            IN  /\ campaigns' = [campaigns EXCEPT ![call[p].id] = row]
                /\ writes' = Bump(writes, call[p].id, AuditLabel(op))
                /\ call' = [call EXCEPT ![p].data = RowData(row)]
                /\ pc' = [pc EXCEPT ![p] = "audit"]
                /\ UNCHANGED ret
  /\ UNCHANGED <<created, messages, metrics, auditLog, calls, auditFailures,
                  consentVars, tagVars, renderVars>>

UpdateCampaign(p)   == UpdateWhereId(p, "updateCampaign")
ScheduleCampaign(p) == UpdateWhereId(p, "scheduleCampaign")
CancelCampaign(p)   == UpdateWhereId(p, "cancelCampaign")
PauseCampaign(p)    == UpdateWhereId(p, "pauseCampaign")
ResumeCampaign(p)   == UpdateWhereId(p, "resumeCampaign")

\* As AfterAudit, with the insert's error checked and thrown.
AfterAuditChecked(c, outcome) ==
  IF outcome = Ok
  THEN [op |-> c.op, id |-> c.id, threw |-> FALSE, msg |-> Null, data |-> c.data,
        storeError |-> c.reported, audit |-> "ok"]
  ELSE [op |-> c.op, id |-> c.id, threw |-> TRUE, msg |-> outcome, data |-> NullData,
        storeError |-> c.reported, audit |-> "failed"]

\* What the caller sees once logAuditAction's insert has answered: the insert's
\* {error} is never read, so the call returns the primary result either way.
\* storeError is the error an earlier request of the call reported and the call
\* did not read, if any.
AfterAudit(c, outcome) ==
  [op |-> c.op, id |-> c.id, threw |-> FALSE, msg |-> Null, data |-> c.data,
   storeError |-> c.reported, audit |-> IF outcome = Ok THEN "ok" ELSE "failed"]

\* await this.logAuditAction(...) and the return that follows it.
LogAuditAction(p) ==
  /\ pc[p] = "audit"
  /\ \E o \in StoreOutcomes :
       /\ IF o = Ok
          THEN /\ auditLog' = AuditInsert(auditLog, call[p].id, AuditLabel(call[p].op),
                                          PerformedBy(call[p].user), AuditChanges(call[p]))
               /\ UNCHANGED auditFailures
          ELSE /\ auditFailures' = Bump(auditFailures, call[p].id, AuditLabel(call[p].op))
               /\ UNCHANGED auditLog
       /\ ret' = AfterAudit(call[p], o)
  /\ pc' = [pc EXCEPT ![p] = "idle"]
  /\ call' = [call EXCEPT ![p] = NoCall]
  /\ UNCHANGED <<campaigns, created, messages, metrics, calls, writes,
                  consentVars, tagVars, renderVars>>

\* .delete().eq('id', campaignId): the table without the row.
DeleteWhereId(table, id) == [table EXCEPT ![id] = NoRow]

\* As DeleteCampaign, with a deleted entry logged after a successful delete.
DeleteCampaignAudited(p) ==
  \E id \in CampaignIds, o \in StoreOutcomes :
    /\ Finish(p, "deleteCampaign", id, o, NullData)
    /\ campaigns' = IF o = Ok THEN DeleteWhereId(campaigns, id) ELSE campaigns
    /\ auditLog' = IF o = Ok THEN AuditInsert(auditLog, id, "deleted", Null, {})
                   ELSE auditLog
    /\ UNCHANGED <<created, messages, metrics, writes, auditFailures,
                  consentVars, tagVars, renderVars>>

\* deleteCampaign, lines 150-157.
DeleteCampaign(p) ==
  \E id \in CampaignIds, o \in StoreOutcomes :
    /\ Finish(p, "deleteCampaign", id, o, NullData)
    /\ campaigns' = IF o = Ok THEN DeleteWhereId(campaigns, id) ELSE campaigns
    /\ UNCHANGED <<created, messages, metrics, auditLog, writes, auditFailures,
                  consentVars, tagVars, renderVars>>

\* .maybeSingle(): the row, or null when the filter matched none.
MaybeSingle(row) == IF row = NoRow THEN NullData ELSE RowData(row)

\* getCampaign, lines 103-112.
GetCampaign(p) ==
  \E id \in CampaignIds, o \in StoreOutcomes :
    /\ Finish(p, "getCampaign", id, o, MaybeSingle(campaigns[id]))
    /\ UNCHANGED <<campVars, consentVars, tagVars, renderVars>>

\* getCampaignMetrics, lines 285-294.
GetCampaignMetrics(p) ==
  \E id \in CampaignIds, o \in StoreOutcomes :
    /\ Finish(p, "getCampaignMetrics", id, o, MaybeSingle(metrics[id]))
    /\ UNCHANGED <<campVars, consentVars, tagVars, renderVars>>

\* The rollup procedure update_campaign_metrics_for_campaign creates the
\* campaign's metrics row when it has none.
RecomputeMetrics(m, id) == [m EXCEPT ![id] = [campaign_id |-> id]]

\* updateCampaignMetrics, lines 296-303.
UpdateCampaignMetrics(p) ==
  \E id \in CampaignIds, o \in StoreOutcomes :
    /\ Finish(p, "updateCampaignMetrics", id, o, NullData)
    /\ metrics' = IF o = Ok THEN RecomputeMetrics(metrics, id) ELSE metrics
    /\ UNCHANGED <<campaigns, created, messages, auditLog, writes,
                  auditFailures, consentVars, tagVars, renderVars>>

\* What calculate_campaign_audience may answer; data || 0 (line 172).
AudienceAnswers == {NullData, NumData(0), NumData(3)}
OrZero(d) == IF d = NullData THEN NumData(0) ELSE d

\* calculateAudienceSize, lines 159-173.
CalculateAudienceSize(p) ==
  \E d \in AudienceAnswers, o \in StoreOutcomes :
    /\ Finish(p, "calculateAudienceSize", 0, o, OrZero(d))
    /\ UNCHANGED <<campVars, consentVars, tagVars, renderVars>>

\* getCampaignMessages, lines 175-183.
GetCampaignMessages(p) ==
  \E id \in CampaignIds, o \in StoreOutcomes :
    /\ Finish(p, "getCampaignMessages", id, o, ListData(MessagesOf(messages, id)))
    /\ UNCHANGED <<campVars, consentVars, tagVars, renderVars>>

\* .eq('campaign_id', id).order('timestamp', { ascending: false }), lines 461-465.
RECURSIVE NewestFirst(_, _)
NewestFirst(log, id) ==
  IF log = <<>> THEN <<>>
  ELSE LET rest == NewestFirst(SubSeq(log, 1, Len(log) - 1), id)
       IN  IF log[Len(log)].campaign_id = id THEN <<log[Len(log)]>> \o rest ELSE rest

\* getCampaignAuditLog, lines 460-469.
GetCampaignAuditLog(p) ==
  \E id \in CampaignIds, o \in StoreOutcomes :
    /\ Finish(p, "getCampaignAuditLog", id, o, ListData(NewestFirst(auditLog, id)))
    /\ UNCHANGED <<campVars, consentVars, tagVars, renderVars>>

\* What the promo-code procedures may answer; the service returns it as it is.
PromoAnswers == {NullData, [kind |-> "opaque", value |-> "v"]}
PromoOps     == {"generatePromoCode", "validatePromoCode", "redeemPromoCode"}

\* generatePromoCode 211-223, validatePromoCode 247-263, redeemPromoCode 265-283.
PromoProcedure(p) ==
  \E op \in PromoOps, d \in PromoAnswers, o \in StoreOutcomes :
    /\ Finish(p, op, 0, o, d)
    /\ UNCHANGED <<campVars, consentVars, tagVars, renderVars>>

\* createCampaignMessage, lines 185-194.
CreateCampaignMessage(p) ==
  \E id \in CampaignIds, t \in MsgTemplates, o \in StoreOutcomes :
    LET row == MessageRow(Len(messages) + 1,
                          {<<"campaign_id", id>>, <<"message_template", t>>})
    IN  /\ Len(messages) < MaxMessages
        /\ Finish(p, "createCampaignMessage", id, o, RowData(row))
        /\ messages' = IF o = Ok THEN Append(messages, row) ELSE messages
        /\ UNCHANGED <<campaigns, created, metrics, auditLog, writes, auditFailures,
                      consentVars, tagVars, renderVars>>

\* updateCampaignMessage, lines 196-209: .update(updates).eq('id', messageId)
\* .select().single() and its error check.
UpdateCampaignMessage(p) ==
  \E m \in MessageIds, updates \in MessageUpdates, o \in StoreOutcomes :
    IF o = Ok /\ m <= Len(messages)
    THEN LET row == PatchRow(messages[m], updates)
         IN  /\ Finish(p, "updateCampaignMessage", m, Ok, RowData(row))
             /\ messages' = [messages EXCEPT ![m] = row]
             /\ UNCHANGED <<campaigns, created, metrics, auditLog, writes,
                           auditFailures, consentVars, tagVars, renderVars>>
    ELSE /\ Finish(p, "updateCampaignMessage", m, IF o = Ok THEN NoRowsMsg ELSE o,
                   NullData)
         /\ UNCHANGED <<campVars, consentVars, tagVars, renderVars>>

\* As CampaignOrMessagesMissing, without the test of messages.length.
CampaignMissing(campaign, msgs) == campaign = NoRow

\* if (!campaign || messages.length === 0), line 491.
CampaignOrMessagesMissing(campaign, msgs) == campaign = NoRow \/ Len(msgs) = 0

\* previewCampaign, line 488: const campaign = await this.getCampaign(campaignId),
\* which throws the store's error and gives null when the campaign is absent.
PreviewCampaign(p) ==
  /\ FreeSlot(p)
  /\ calls' = calls + 1
  /\ \E id \in CampaignIds, customerId \in CustomerIds, o \in StoreOutcomes :
       IF o # Ok THEN ThrowAs(p, "previewCampaign", id, ErrorMessage(o), o)
       ELSE /\ pc' = [pc EXCEPT ![p] = "messages"]
            /\ call' = [call EXCEPT ![p] =
                 [op |-> "previewCampaign", id |-> id, user |-> Null, arg |-> {},
                  customer |-> customerId, reported |-> Null,
                  data |-> [kind |-> "fetched", campaign |-> campaigns[id]]]]
            /\ UNCHANGED ret
  /\ UNCHANGED <<campVars, consentVars, tagVars, renderVars>>

\* previewCampaign, lines 489-493: await this.getCampaignMessages(campaignId)
\* and the not-found check on what the two reads gave.
PreviewMessages(p) ==
  /\ pc[p] = "messages"
  /\ \E o \in StoreOutcomes :
       LET msgs == MessagesOf(messages, call[p].id)
       IN  IF o # Ok THEN Throw(p, ErrorMessage(o), o)
           ELSE IF CampaignOrMessagesMissing(call[p].data.campaign, msgs)
           THEN Throw(p, CampaignNotFoundMsg, Null)
           ELSE /\ pc' = [pc EXCEPT ![p] = "customer"]
                /\ call' = [call EXCEPT ![p].data =
                     [kind |-> "fetched", campaign |-> call[p].data.campaign,
                      messages |-> msgs]]
                /\ UNCHANGED ret
  /\ UNCHANGED <<campVars, calls, consentVars, tagVars, renderVars>>

\* What .single() reports when the store answers o: the store's error, or the
\* no-rows error when the filter matched no row; data is then null.
SingleError(o, row) == IF o # Ok THEN o ELSE IF row = NoRow THEN NoRowsMsg ELSE Null
SingleData(o, row)  == IF SingleError(o, row) = Null THEN row ELSE NoRow

\* previewCampaign, lines 495-503: the customer lookup, of which only data is
\* read, and the not-found check.
PreviewCustomer(p) ==
  /\ pc[p] = "customer"
  /\ \E o \in StoreOutcomes :
       LET row      == Lookup(Customers, call[p].customer)
           customer == SingleData(o, row)
       IN  IF customer = NoRow
           THEN Throw(p, CustomerNotFoundMsg, SingleError(o, row))
           ELSE /\ pc' = [pc EXCEPT ![p] = "restaurant"]
                /\ call' = [call EXCEPT ![p].data =
                     [kind |-> "fetched", campaign |-> call[p].data.campaign,
                      messages |-> call[p].data.messages, customer |-> customer]]
                /\ UNCHANGED ret
  /\ UNCHANGED <<campVars, calls, consentVars, tagVars, renderVars>>

\* messages.map(msg => ({...msg, rendered_message})), lines 511-522.
RenderMessages(msgs, customer, restaurant) ==
  [i \in 1..Len(msgs) |->
     [id               |-> msgs[i].id,
      campaign_id      |-> msgs[i].campaign_id,
      message_template |-> msgs[i].message_template,
      rendered_message |-> RenderMessage(msgs[i].message_template, customer,
                                         restaurant)]]

\* previewCampaign, lines 505-522: the restaurant lookup, of which only data
\* is read, and the rendering that follows it.
PreviewRender(p) ==
  /\ pc[p] = "restaurant"
  /\ \E o \in StoreOutcomes :
       LET campaign   == call[p].data.campaign
           customer   == call[p].data.customer
           row        == Lookup(Restaurants, campaign.restaurant_id)
           restaurant == SingleData(o, row)
       IN  call' = [call EXCEPT ![p].reported = SingleError(o, row), ![p].data =
                     [kind |-> "preview", campaign |-> campaign,
                      messages |-> RenderMessages(call[p].data.messages, customer,
                                                  restaurant),
                      customer |-> customer]]
  /\ pc' = [pc EXCEPT ![p] = "user"]
  /\ UNCHANGED <<campVars, ret, calls, consentVars, tagVars, renderVars>>

\* previewCampaign, line 524: const { data: userData } = await
\* supabase.auth.getUser(); the audit insert of line 525 is what comes next.
PreviewGetUser(p) ==
  /\ pc[p] = "user"
  /\ \E user \in Users \cup {Null} :
       call' = [call EXCEPT ![p].user = user]
  /\ pc' = [pc EXCEPT ![p] = "audit"]
  /\ writes' = Bump(writes, call[p].id, "preview")
  /\ UNCHANGED <<campaigns, created, messages, metrics, auditLog, ret, calls,
                  auditFailures, consentVars, tagVars, renderVars>>

(***************************************************************************)
(* Customer consent.                                                       *)
(***************************************************************************)
ConsentCustomers   == {"k1", "k2"}
ConsentRestaurants == {"r1"}
ConsentInputs ==
  {{<<"email", "true">>},
   {<<"email", "false">>, <<"sms", "true">>},
   {<<"push_notifications", "true">>},
   {<<"customer_id", "k2">>, <<"whatsapp", "true">>}}
ConsentFlags == {"push_notifications", "whatsapp", "email", "sms"}

\* CustomerConsent (interface, lines 79-89): the key and the four flags.
ConsentRow(body) ==
  [customer_id        |-> Get(body, "customer_id", Null),
   restaurant_id      |-> Get(body, "restaurant_id", Null),
   push_notifications |-> Get(body, "push_notifications", Null),
   whatsapp           |-> Get(body, "whatsapp", Null),
   email              |-> Get(body, "email", Null),
   sms                |-> Get(body, "sms", Null)]

\* updateCustomerConsent's upsert body (lines 377-381).
ConsentBody(customerId, restaurantId, consentPatch) ==
  JsonBody(Spread({<<"customer_id", customerId>>, <<"restaurant_id", restaurantId>>},
                  consentPatch))

OfPair(row, customerId, restaurantId) ==
  row.customer_id = customerId /\ row.restaurant_id = restaurantId

\* The store's upsert on customer_consent: the body is merged onto the row of
\* its (customer_id, restaurant_id) pair, which is created when absent.
Upsert(table, body) ==
  LET c == Get(body, "customer_id", Null)
      r == Get(body, "restaurant_id", Null)
  IN  IF \E row \in table : OfPair(row, c, r)
      THEN {IF OfPair(row, c, r) THEN PatchRow(row, body) ELSE row : row \in table}
      ELSE table \cup {ConsentRow(body)}

\* .eq('customer_id', c).eq('restaurant_id', r), one row at most.
ConsentOf(table, c, r) ==
  IF \E row \in table : OfPair(row, c, r)
  THEN CHOOSE row \in table : OfPair(row, c, r)
  ELSE NoRow

\* updateCustomerConsent, lines 370-387.
UpdateCustomerConsent(p) ==
  \E c \in ConsentCustomers, r \in ConsentRestaurants, patch \in ConsentInputs,
     o \in StoreOutcomes :
    LET body  == ConsentBody(c, r, patch)
        after == Upsert(consent, body)
    IN  /\ Finish(p, "updateCustomerConsent", <<c, r>>, o,
                  RowData(ConsentOf(after, Get(body, "customer_id", Null),
                                    Get(body, "restaurant_id", Null))))
        /\ consent' = IF o = Ok THEN after ELSE consent
        /\ consentLog' = IF o = Ok
             THEN Append(consentLog, [customer_id |-> c, restaurant_id |-> r,
                                      consent |-> patch])
             ELSE consentLog
        /\ UNCHANGED <<campVars, tagVars, renderVars>>

\* getCustomerConsent, lines 358-368.
GetCustomerConsent(p) ==
  \E c \in ConsentCustomers, r \in ConsentRestaurants, o \in StoreOutcomes :
    /\ Finish(p, "getCustomerConsent", <<c, r>>, o, MaybeSingle(ConsentOf(consent, c, r)))
    /\ UNCHANGED <<campVars, consentVars, tagVars, renderVars>>

(***************************************************************************)
(* Customer tags.                                                          *)
(***************************************************************************)
TagIds       == {"t1", "t2"}
TagCustomers == {"k1", "k2"}

TagRow(id) == [id |-> id, name |-> id]

\* createCustomerTag, lines 316-325.
CreateCustomerTag(p) ==
  \E t \in TagIds, o \in StoreOutcomes :
    /\ Lookup(tags, t) = NoRow
    /\ Finish(p, "createCustomerTag", t, o, RowData(TagRow(t)))
    /\ tags' = IF o = Ok THEN tags \cup {TagRow(t)} ELSE tags
    /\ UNCHANGED <<campVars, consentVars, assignments, renderVars>>

\* assignTagToCustomer, lines 327-336.  tag_id references customer_tags: the
\* store accepts the row only for a tag it holds.
AssignTagToCustomer(p) ==
  \E c \in TagCustomers, t \in TagIds, o \in StoreOutcomes :
    /\ Lookup(tags, t) = NoRow => o # Ok
    /\ Finish(p, "assignTagToCustomer", <<c, t>>, o, NullData)
    /\ assignments' = IF o = Ok
         THEN Append(assignments, [customer_id |-> c, tag_id |-> t])
         ELSE assignments
    /\ UNCHANGED <<campVars, consentVars, tags, renderVars>>

\* removeTagFromCustomer, lines 338-346.
RemoveTagFromCustomer(p) ==
  \E c \in TagCustomers, t \in TagIds, o \in StoreOutcomes :
    LET Kept(row) == ~(row.customer_id = c /\ row.tag_id = t)
    IN  /\ Finish(p, "removeTagFromCustomer", <<c, t>>, o, NullData)
        /\ assignments' = IF o = Ok THEN SelectSeq(assignments, Kept) ELSE assignments
        /\ UNCHANGED <<campVars, consentVars, tags, renderVars>>

\* .select('customer_tags(*)').eq('customer_id', customerId), lines 349-352: one
\* item per assignment row of the customer, its customer_tags the embedded tag
\* row, or null when the row has no tag.
EmbedTags(rows, tagTable, customerId) ==
  LET Mine(row) == row.customer_id = customerId
      mine      == SelectSeq(rows, Mine)
  IN  [i \in 1..Len(mine) |-> [customer_tags |-> Lookup(tagTable, mine[i].tag_id)]]

\* data?.map((item: any) => item.customer_tags) || [], line 355.
UnwrapTags(data) == [i \in 1..Len(data) |-> data[i].customer_tags]

\* getCustomerTags, lines 348-356.
GetCustomerTags(p) ==
  \E c \in TagCustomers, o \in StoreOutcomes :
    /\ Finish(p, "getCustomerTags", c, o,
              ListData(UnwrapTags(EmbedTags(assignments, tags, c))))
    /\ UNCHANGED <<campVars, consentVars, tagVars, renderVars>>

\* A tag row is deleted in the store (no operation of the service does it).
\* The assignments that reference it go with it, or stay with tag_id null.
TagDeleted ==
  /\ \E t \in tags, onDelete \in {"cascade", "set null"} :
       LET Other(row) == row.tag_id # t.id
       IN  /\ tags' = tags \ {t}
           /\ assignments' =
                IF onDelete = "cascade" THEN SelectSeq(assignments, Other)
                ELSE [i \in 1..Len(assignments) |->
                        IF Other(assignments[i]) THEN assignments[i]
                        ELSE [assignments[i] EXCEPT !.tag_id = Null]]
  /\ UNCHANGED <<campVars, callVars, consentVars, renderVars>>

(***************************************************************************)
(* Specifications.                                                         *)
(***************************************************************************)
InitCampaigns ==
  /\ campaigns = [id \in CampaignIds |->
       IF id = 1 THEN CampaignRow({<<"status", "draft">>, <<"restaurant_id", "r1">>,
                                   <<"created_by", "u1">>})
       ELSE NoRow]
  /\ created = 1
  /\ messages = <<MessageRow(1, {<<"campaign_id", 1>>,
                                  <<"message_template",
                                    CHOOSE t \in MsgTemplates : TRUE>>})>>
  /\ metrics = [id \in CampaignIds |-> NoRow]
  /\ auditLog = <<AuditEntry(1, "created", "u1", {})>>
  /\ writes = Bump(Zero, 1, "created")
  /\ auditFailures = Zero

InitCalls ==
  /\ pc = [p \in Slots |-> "idle"]
  /\ call = [p \in Slots |-> NoCall]
  /\ ret = NoRet
  /\ calls = 0

InitRenderIdle ==
  /\ rTemplate = <<>>
  /\ rCustomer = NoRow
  /\ rRestaurant = NoRow
  /\ rOut = Pending

InitConsent ==
  /\ consent = {}
  /\ consentLog = <<>>

InitTags ==
  /\ tags = {TagRow("t1")}
  /\ assignments = <<>>

Init == InitCampaigns /\ InitCalls /\ InitRenderIdle /\ InitConsent /\ InitTags

\* The campaign operations, with the single-row lookups.
Next ==
  \E p \in Slots :
       \/ GetUser(p)
       \/ CreateCampaign(p)
       \/ UpdateCampaign(p)
       \/ ScheduleCampaign(p)
       \/ CancelCampaign(p)
       \/ PauseCampaign(p)
       \/ ResumeCampaign(p)
       \/ LogAuditAction(p)
       \/ DeleteCampaign(p)
       \/ GetCampaign(p)
       \/ GetCampaignMetrics(p)
       \/ UpdateCampaignMetrics(p)
       \/ CalculateAudienceSize(p)
       \/ CreateCampaignMessage(p)
       \/ UpdateCampaignMessage(p)
       \/ GetCampaignMessages(p)
       \/ GetCampaignAuditLog(p)
       \/ PromoProcedure(p)
       \/ PreviewCampaign(p)
       \/ PreviewMessages(p)
       \/ PreviewCustomer(p)
       \/ PreviewRender(p)
       \/ PreviewGetUser(p)
       \/ GetCustomerConsent(p)

Spec == Init /\ [][Next]_vars

\* The consent operations.
NextConsent ==
  \E p \in Slots :
    \/ UpdateCustomerConsent(p)
    \/ GetCustomerConsent(p)

SpecConsent == Init /\ [][NextConsent]_vars

\* The tag operations.
NextTags ==
  \/ \E p \in Slots :
       \/ CreateCustomerTag(p)
       \/ AssignTagToCustomer(p)
       \/ RemoveTagFromCustomer(p)
       \/ GetCustomerTags(p)
  \/ TagDeleted

SpecTags == Init /\ [][NextTags]_vars

\* The renderer of previewCampaign as a function of its inputs.
RenderTemplates ==
  {<<"H", "i", " ">> \o CustomerNameRe \o <<"!">>,
   CustomerNameRe \o <<" ">> \o RestaurantNameRe \o <<" ">> \o PromoCodeRe,
   PromoCodeRe \o PromoCodeRe,
   Braced(<<"x">>) \o CustomerNameRe,
   <<"{", "{", "p", "r", "o", "m", "o", "_">> \o RestaurantNameRe
     \o <<"c", "o", "d", "e", "}", "}">>,
   <<"n", "o", "n", "e">>}
RenderFirstNames == {<<"A">>, PromoCodeRe, <<"$", "&">>, <<"$", "$">>}
RenderLastNames  == {<<"B">>, RestaurantNameRe}
RenderRestaurants ==
  {NoRow, [id |-> "r1", name |-> <<"R">>], [id |-> "r1", name |-> PromoCodeRe],
   [id |-> "r1", name |-> <<>>]}

InitRender ==
  /\ InitCampaigns /\ InitCalls /\ InitConsent /\ InitTags
  /\ rTemplate \in RenderTemplates
  /\ \E f \in RenderFirstNames, l \in RenderLastNames :
       rCustomer = [id |-> "k1", first_name |-> f, last_name |-> l]
  /\ rRestaurant \in RenderRestaurants
  /\ rOut = Pending

Render ==
  /\ rOut = Pending
  /\ rOut' = RenderMessage(rTemplate, rCustomer, rRestaurant)
  /\ UNCHANGED <<rTemplate, rCustomer, rRestaurant, campVars, callVars, consentVars,
                 tagVars>>

NextRender == Render

SpecRender == InitRender /\ [][NextRender]_vars

(***************************************************************************)
(* Properties.                                                             *)
(***************************************************************************)
Busy     == {p \in Slots : pc[p] # "idle"}
AllIdle  == Busy = {}
\* The number of calls that have returned or thrown.
Finished == calls - Cardinality(Busy)

Entries(id, label) ==
  Cardinality({i \in 1..Len(auditLog) :
                 auditLog[i].campaign_id = id /\ auditLog[i].action = label})
PendingAudits(id, label) ==
  Cardinality({p \in Slots :
                 pc[p] = "audit" /\ call[p].id = id /\ AuditLabel(call[p].op) = label})
MutationLabels == {"created", "edited", "scheduled", "cancelled", "paused", "resumed"}
LifecycleOps   == {"scheduleCampaign", "cancelCampaign", "pauseCampaign",
                   "resumeCampaign"}
IsPrefix(a, b) == Len(a) <= Len(b) /\ SubSeq(b, 1, Len(a)) = a

\* C1 as stated: once no call is in flight, a campaign has as many audit
\* entries under a label as the matching operation had successful primary
\* writes on it.
C1_EntriesEqualWrites ==
  AllIdle =>
    \A id \in CampaignIds, l \in MutationLabels : Entries(id, l) = writes[<<id, l>>]

\* C1 amended: every successful primary write of create, update, schedule,
\* cancel, pause or resume is followed by exactly one audit insert for that
\* campaign under the matching label, which appends one entry when the store
\* accepts it and none when it fails; so at any moment the entries, the inserts
\* still to come and the failed inserts add up to the successful primary writes.
C1_EntriesPlusFailuresEqualWrites ==
  \A id \in CampaignIds, l \in MutationLabels :
    Entries(id, l) + PendingAudits(id, l) + auditFailures[<<id, l>>] = writes[<<id, l>>]

\* Two mutations have finished, one with its audit entry and one whose audit
\* insert failed.
C1_Witness ==
  /\ AllIdle
  /\ \E k1, k2 \in CampaignIds \X (MutationLabels \ {"created"}) :
       /\ k1 # k2
       /\ auditFailures[k1] = 1 /\ Entries(k1[1], k1[2]) = 0
       /\ writes[k2] = 1 /\ Entries(k2[1], k2[2]) = 1

\* C2 as stated: a call whose audit insert failed ends by throwing.
C2_AuditFailureThrows == ret.audit = "failed" => ret.threw

\* C2 amended: when the audit insert fails after a successful primary
\* operation of create, update, schedule, cancel, pause, resume or preview, the
\* failure is not surfaced: the call returns its primary result, and the step
\* leaves the campaigns table as the primary write made it.
C2_AuditFailureIsSwallowed ==
  [][\A p \in Slots :
       pc[p] = "audit" /\ pc'[p] = "idle" /\ auditLog' = auditLog =>
         /\ ~ret'.threw
         /\ ret'.audit = "failed"
         /\ ret'.data = call[p].data
         /\ campaigns' = campaigns]_vars

\* updateCampaign returned although its audit insert failed, and the update is
\* in the table.
C2_Witness ==
  /\ ret.op = "updateCampaign" /\ ret.audit = "failed" /\ ~ret.threw
  /\ campaigns[ret.id] # NoRow
  /\ campaigns[ret.id].status = "sent"
  /\ Entries(ret.id, "edited") = 0

TargetStatus(op) ==
  CASE op = "scheduleCampaign" -> "scheduled"
    [] op = "cancelCampaign"   -> "cancelled"
    [] op = "pauseCampaign"    -> "paused"
    [] op = "resumeCampaign"   -> "scheduled"

\* C3: when the store answers the update of schedule, cancel, pause or resume
\* for a campaign that exists, the campaign's status becomes the operation's
\* target (scheduled for resume) whatever it was; such a call is rejected only
\* with an error of the store or because the campaign does not exist.
C3_LifecycleIgnoresStatus ==
  [][\A p \in Slots :
       pc[p] = "primary" /\ call[p].op \in LifecycleOps /\ pc'[p] # "primary" =>
         IF pc'[p] = "idle"
         THEN /\ ret'.threw
              /\ \/ ret'.msg \in ErrMsgs
                 \/ ret'.msg = NoRowsMsg /\ campaigns[call[p].id] = NoRow
         ELSE /\ campaigns[call[p].id] # NoRow
              /\ campaigns'[call[p].id].status = TargetStatus(call[p].op)]_vars

\* resumeCampaign has just written status scheduled over a campaign whose last
\* audited change was its cancellation.
C3_Witness ==
  \E p \in Slots :
    /\ pc[p] = "audit" /\ call[p].op = "resumeCampaign"
    /\ campaigns[call[p].id] # NoRow
    /\ campaigns[call[p].id].status = "scheduled"
    /\ auditLog[Len(auditLog)].action = "cancelled"
    /\ auditLog[Len(auditLog)].campaign_id = call[p].id
    /\ Busy = {p}

\* The reading of C4: one pass over the template in which every occurrence of
\* the three placeholders is replaced by its value, taken literally, and
\* nothing that was inserted is looked at again.
RECURSIVE OnePass(_, _, _, _)
OnePass(template, fullName, restaurantName, i) ==
  IF i > Len(template) THEN <<>>
  ELSE IF MatchAt(template, CustomerNameRe, i)
    THEN fullName \o OnePass(template, fullName, restaurantName, i + Len(CustomerNameRe))
  ELSE IF MatchAt(template, RestaurantNameRe, i)
    THEN restaurantName
         \o OnePass(template, fullName, restaurantName, i + Len(RestaurantNameRe))
  ELSE IF MatchAt(template, PromoCodeRe, i)
    THEN PreviewCode \o OnePass(template, fullName, restaurantName, i + Len(PromoCodeRe))
  ELSE <<template[i]>> \o OnePass(template, fullName, restaurantName, i + 1)

\* C4 as stated: rendered_message is the template with each occurrence of the
\* three placeholders replaced exactly once by the customer's full name, the
\* restaurant name (empty when absent) and PREVIEW-CODE, everything else left
\* as it was and no inserted text substituted again.
C4_RenderedIsOnePass ==
  rOut # Pending =>
    rOut = OnePass(rTemplate, rCustomer.first_name \o <<" ">> \o rCustomer.last_name,
                   IF rRestaurant = NoRow THEN <<>> ELSE rRestaurant.name, 1)

\* C5: a previewCampaign call that throws appends no audit entry; when its
\* campaign read found no campaign, or its message read finds no message of
\* the campaign, the call throws there, the not-found error unless the message
\* read itself reports an error; and when the customer id resolves to no
\* customer the call throws the customer not-found error.
C5_PreviewNotFound ==
  [][/\ Finished' = Finished + 1 /\ ret'.op = "previewCampaign" /\ ret'.threw =>
          auditLog' = auditLog /\ ret'.audit = "none"
     /\ \A p \in Slots :
          /\ pc[p] = "messages" /\ pc'[p] # "messages"
          /\ \/ call[p].data.campaign = NoRow
             \/ \A i \in 1..Len(messages) : messages[i].campaign_id # call[p].id
          => /\ pc'[p] = "idle" /\ ret'.threw
             /\ ret'.msg = IF ret'.storeError = Null THEN CampaignNotFoundMsg
                           ELSE ret'.storeError
     /\ \A p \in Slots :
          pc[p] = "customer" /\ pc'[p] # "customer"
          /\ (\A k \in Customers : k.id # call[p].customer) =>
            pc'[p] = "idle" /\ ret'.threw /\ ret'.msg = CustomerNotFoundMsg]_vars

\* previewCampaign threw not-found for a campaign that exists and has no
\* message, and the log holds no preview entry.
C5_Witness ==
  /\ ret.op = "previewCampaign" /\ ret.threw /\ ret.msg = CampaignNotFoundMsg
  /\ campaigns[ret.id] # NoRow
  /\ \A i \in 1..Len(messages) : messages[i].campaign_id # ret.id
  /\ \A i \in 1..Len(auditLog) : auditLog[i].action # "preview"

\* C6 as stated: at most one consent row per (customer_id, restaurant_id), and
\* after two sequential updateCustomerConsent calls for the same pair that pair
\* has exactly one row, whose flags are those of the second call merged over
\* those of the first.
C6_UpsertByPair ==
  /\ \A c \in ConsentCustomers, r \in ConsentRestaurants :
       Cardinality({row \in consent : OfPair(row, c, r)}) <= 1
  /\ Len(consentLog) >= 2 =>
       LET first  == consentLog[Len(consentLog) - 1]
           second == consentLog[Len(consentLog)]
           rows   == {row \in consent :
                        OfPair(row, second.customer_id, second.restaurant_id)}
       IN  first.customer_id = second.customer_id
           /\ first.restaurant_id = second.restaurant_id =>
             /\ Cardinality(rows) = 1
             /\ \A row \in rows, f \in ConsentFlags :
                  row[f] = Get(second.consent, f, Get(first.consent, f, row[f]))

\* C7 as stated: the list getCustomerTags returns holds no null entry.
C7_NoNullTag ==
  ret.op = "getCustomerTags" /\ ~ret.threw =>
    \A i \in 1..Len(ret.data.list) : ret.data.list[i] # NoRow

\* C8: the row createCampaign inserts has created_by equal to the identity
\* getUser gave, whatever created_by the caller passed, and no created_by when
\* getUser gave none; createCampaign throws only an error of the store; and the
\* created entry of a call without identity has performer null.
C8_CreatedByIsSessionUser ==
  [][\A p \in Slots :
       /\ pc[p] = "primary" /\ call[p].op = "createCampaign" /\ pc'[p] = "audit" =>
            /\ campaigns'[call'[p].id].created_by = call[p].user
            /\ ret' = ret
       /\ pc[p] = "primary" /\ call[p].op = "createCampaign" /\ pc'[p] = "idle" =>
            ret'.threw /\ ret'.msg \in ErrMsgs
       /\ pc[p] = "audit" /\ call[p].op = "createCampaign" /\ call[p].user = Null
          /\ pc'[p] = "idle" /\ auditLog' # auditLog =>
            /\ auditLog'[Len(auditLog')].action = "created"
            /\ auditLog'[Len(auditLog')].performed_by = Null]_vars

\* A campaign created without identity from an input that carried created_by:
\* the row has no created_by and its created entry has performer null.
C8_Witness ==
  /\ campaigns[2] # NoRow
  /\ campaigns[2].restaurant_id = "r9"
  /\ campaigns[2].created_by = Null
  /\ \E i \in 1..Len(auditLog) :
       /\ auditLog[i].campaign_id = 2 /\ auditLog[i].action = "created"
       /\ auditLog[i].performed_by = Null

\* C9: every step leaves the audit entries already written in place, and a
\* deleteCampaign call, whether it returns or throws, adds none.
C9_AuditLogOnlyGrows ==
  [][/\ IsPrefix(auditLog, auditLog')
     /\ calls' = calls + 1 /\ ret'.op = "deleteCampaign" => auditLog' = auditLog]_vars

\* deleteCampaign removed campaign 1, whose audit entries are still there, and
\* no entry was added.
C9_Witness ==
  /\ ret.op = "deleteCampaign" /\ ~ret.threw /\ ret.id = 1
  /\ campaigns[1] = NoRow
  /\ Len(auditLog) = 1
  /\ auditLog[1].campaign_id = 1

NullableReads == {"getCampaign", "getCampaignMetrics", "getCustomerConsent"}

RowRead(op, id) ==
  CASE op = "getCampaign"        -> campaigns[id]
    [] op = "getCampaignMetrics" -> metrics[id]
    [] op = "getCustomerConsent" -> ConsentOf(consent, id[1], id[2])

\* C10 as stated: a call to which the store reports an error, on any request
\* other than the audit insert, ends by throwing the reported message, with no
\* audit entry added and no table changed; getCampaign, getCampaignMetrics and
\* getCustomerConsent return null, without throwing, when the store reports no
\* error and holds no such row.  The no-rows answer to previewCampaign's
\* customer and restaurant lookups is left out: for an absent customer or
\* restaurant previewCampaign has its own outcome.
C10_ErrorsPropagate ==
  [][Finished' = Finished + 1 =>
       /\ /\ ret'.storeError # Null
          /\ ~(ret'.op = "previewCampaign" /\ ret'.storeError = NoRowsMsg)
          => /\ ret'.threw /\ ret'.msg = ret'.storeError
             /\ ret'.audit = "none"
             /\ <<campaigns, messages, metrics, auditLog, consent>>' =
                <<campaigns, messages, metrics, auditLog, consent>>
       /\ ret'.op \in NullableReads /\ ret'.storeError = Null =>
            /\ ~ret'.threw
            /\ RowRead(ret'.op, ret'.id) = NoRow => ret'.data = NullData]_vars

====
